---- MODULE Spec2Model ----
(***************************************************************************)
(* Model of the two one-shot monitoring utilities of the repository:       *)
(*   check_okcomputer_health_page.py  (the health poller)                  *)
(*   sendgraph.py                     (the alert composer)                 *)
(* One run of one of the two programs is a behaviour; prog says which.     *)
(* Text is modelled as a sequence of string tokens (a line of stdout, a    *)
(* URL, an e-mail body); concatenation is \o.                              *)
(***************************************************************************)
EXTENDS Integers, Sequences, FiniteSets, TLC

VARIABLES
    prog,         \* which script runs: "poller", "composer"
    pc,           \* position in the script
    args,         \* poller: the dict parse_args returns
    curl,         \* poller: what c.perform() did and c.getinfo(HTTP_CODE)
    buffer,       \* poller: the response body collected by WRITEFUNCTION
    jsonResponse, \* poller: the value json.loads returned
    items,        \* poller: jsonResponse.items(), in the dict's iteration order
    badList,      \* poller: the Check objects of the failing checks
    stdout,       \* poller: the lines printed, each a sequence of tokens
    exitCode,     \* poller: the process exit status (NoExit while running)
    traceback,    \* both: the uncaught exception that ended the run, or NoException
    env,          \* composer: the module globals read from os.getenv
    options,      \* composer: what get_options returns
    email,        \* composer: bgcolor, body and subject built by main
    graph,        \* composer: what get_graph returned
    requests,     \* composer: the URLs passed to requests.get, and the outcome
    msg,          \* composer: the MIME message send_graph_email assembled
    smtp          \* composer: what happened at the mail transport, and the error log

vars == <<prog, pc, args, curl, buffer, jsonResponse, items, badList, stdout,
          exitCode, traceback, env, options, email, graph, requests, msg, smtp>>

pollerVars == <<args, curl, buffer, jsonResponse, items, badList, stdout, exitCode>>
composerVars == <<env, options, email, graph, requests, msg, smtp>>

----------------------------------------------------------------------------
(* Bounds of the model *)

\* the largest number of checks in one health page
MaxChecks == 2
\* the largest number of -e options on the command line
MaxExclude == 1

----------------------------------------------------------------------------
(* Values shared by both programs *)

\* Python's None
None == "<None>"
\* a dict key / JSON member that is not there
Absent == "<absent>"
NoException == "<no exception>"
NoExit == -1

Range(s) == {s[i] : i \in 1..Len(s)}

\* all orders of the elements of a finite set
RECURSIVE Perms(_)
Perms(S) ==
    IF S = {} THEN {<<>>}
    ELSE UNION {{<<x>> \o p : p \in Perms(S \ {x})} : x \in S}

\* all sequences over S of length at most n
RECURSIVE SeqsUpTo(_, _)
SeqsUpTo(S, n) ==
    IF n = 0 THEN {<<>>}
    ELSE SeqsUpTo(S, n - 1) \cup
         {Append(s, x) : s \in {t \in SeqsUpTo(S, n - 1) : Len(t) = n - 1}, x \in S}

----------------------------------------------------------------------------
(* check_okcomputer_health_page.py : values *)

\* exit statuses of the plugin
ExitOK == 0
ExitCritical == 2
ExitUnknown == 3
\* the status CPython exits with after an uncaught exception (a traceback on stderr)
ExitTraceback == 1
\* the only HTTP status the plugin accepts
HttpOK == 200
DefaultPort == 80

\* names a health page may give its checks, and names -e may exclude
CheckNames == {"stub", "db", "cache"}
ExcludeArgs == {"db", "stub"}
Messages == {"ok", "timeout"}
\* JSON values of a "success" member: true, false, null, the string "false", the number 0
JsonSuccess == {"true", "false", "null", "\"false\"", "0"}
HttpCodes == {200, 404, 500}

\* the JSON values a member of the health page may have: an object with or
\* without "message" and "success", or something that is no object (a number)
JsonCheckValues ==
    [isobj : {TRUE}, message : Messages \cup {Absent}, success : JsonSuccess \cup {Absent}]
    \cup {[isobj |-> FALSE, message |-> Absent, success |-> Absent]}

NoMembers == [n \in {} |-> Absent]

\* response bodies: text that is no JSON, JSON whose top level is no object,
\* and JSON objects of at most MaxChecks members
Bodies ==
    {[kind |-> k, members |-> NoMembers] : k \in {"invalid", "array", "string", "number"}}
    \cup
    {[kind |-> "object", members |-> m] :
        m \in UNION {[D -> JsonCheckValues] :
                        D \in {X \in SUBSET CheckNames : Cardinality(X) <= MaxChecks}}}

NotFetched == [kind |-> "none", members |-> NoMembers]
NotParsed == [type |-> "none", members |-> NoMembers]
NoArgs == [hostname |-> None, port |-> 0, ssl |-> FALSE, url |-> None, excludeList |-> <<>>]
NoCurl == [performed |-> "no", http_code |-> 0]

----------------------------------------------------------------------------
(* check_okcomputer_health_page.py : functions *)

\* "%d" % n, as the sequence of its decimal digits
Digit(d) == CASE d = 0 -> "0" [] d = 1 -> "1" [] d = 2 -> "2" [] d = 3 -> "3"
              [] d = 4 -> "4" [] d = 5 -> "5" [] d = 6 -> "6" [] d = 7 -> "7"
              [] d = 8 -> "8" [] d = 9 -> "9"
RECURSIVE FormatD(_)
FormatD(n) == IF n < 10 THEN <<Digit(n)>> ELSE FormatD(n \div 10) \o <<Digit(n % 10)>>

\* the url main builds from the arguments
Url(a) ==
    <<IF a.ssl THEN "https://" ELSE "http://">>
    \o <<a.hostname, ":">> \o FormatD(a.port) \o <<a.url>>

\* json.loads on one scalar: JSON true/false/null/"false"/0 become the Python
\* values True/False/None/u'false'/0
PyValue(j) ==
    CASE j = "true" -> "True"
      [] j = "false" -> "False"
      [] j = "null" -> "None"
      [] j = "\"false\"" -> "u'false'"
      [] j = "0" -> "0"
      [] OTHER -> j

\* "%s" % v for a Python value
PyStr(v) == IF v = "u'false'" THEN "false" ELSE v

\* Python's v == False: true of False and, since bool is an int, of 0
PyEqFalse(v) == v \in {"False", "0"}

\* json.loads on a body that is valid JSON
PyType(kind) ==
    CASE kind = "object" -> "dict"
      [] kind = "array" -> "list"
      [] kind = "string" -> "unicode"
      [] kind = "number" -> "int"

Loads(body) ==
    [type |-> PyType(body.kind),
     members |-> [n \in DOMAIN body.members |->
                    [isobj |-> body.members[n].isobj,
                     message |-> body.members[n].message,
                     success |-> IF body.members[n].success = Absent THEN Absent
                                 ELSE PyValue(body.members[n].success)]]]

\* json.loads raises ValueError on text that is no JSON
LoadsRaises(body) == body.kind = "invalid"

\* Check(name, message, success)
Check(name, message, success) == [name |-> name, message |-> message, success |-> success]

\* Check.__str__ with the two values in each other's place
Check_str_Swapped(c) ==
    <<c.name, " : {message: ", PyStr(c.success), ", success: ", c.message, "}">>

\* Check.__str__
Check_str(c) == <<c.name, " : {message: ", c.message, ", success: ", PyStr(c.success), "}">>

\* the test of the aggregation loop: valueDict["success"] == False
IsBad(valueDict) == PyEqFalse(valueDict.success)

\* the exception one iteration of the aggregation loop raises, if any:
\* valueDict["success"] on something that is no dict, or on a dict without
\* the key; valueDict["message"] on a failing check without the key
ItemException(valueDict) ==
    IF ~valueDict.isobj THEN "TypeError"
    ELSE IF valueDict.success = Absent THEN "KeyError"
    ELSE IF IsBad(valueDict) /\ valueDict.message = Absent THEN "KeyError"
    ELSE NoException

\* the aggregation loop over jsonResponse.items(): the failing checks in the
\* order met, up to the first exception
RECURSIVE Walk(_, _)
Walk(its, bad) ==
    IF its = <<>> THEN [exception |-> NoException, bad |-> bad]
    ELSE LET checkName == Head(its)[1]
             valueDict == Head(its)[2]
         IN IF ItemException(valueDict) # NoException
            THEN [exception |-> ItemException(valueDict), bad |-> bad]
            ELSE IF IsBad(valueDict)
                 THEN Walk(Tail(its),
                           Append(bad, Check(checkName, valueDict.message, valueDict.success)))
                 ELSE Walk(Tail(its), bad)

\* the CRITICAL line: the fixed text, then ", " + str(check) for every check
RECURSIVE CriticalMsg(_)
CriticalMsg(bad) ==
    IF bad = <<>> THEN <<"CRITICAL: ", "The following checks are failing">>
    ELSE CriticalMsg(SubSeq(bad, 1, Len(bad) - 1)) \o <<", ">> \o Check_str(bad[Len(bad)])

\* the status test letting every status below 500 through
StatusAccepted_Below500(code) == code < 500

\* the test on the HTTP status after c.perform()
StatusAccepted(code) == code = HttpOK

----------------------------------------------------------------------------
(* check_okcomputer_health_page.py : the script, step by step *)

\* print one line and sys.exit(code)
PrintAndExit(line, code) ==
    /\ stdout' = Append(stdout, line)
    /\ exitCode' = code
    /\ pc' = "exited"

\* an exception nothing catches: the traceback goes to stderr, nothing is printed
Uncaught(exception) ==
    /\ traceback' = exception
    /\ exitCode' = ExitTraceback
    /\ pc' = "exited"
    /\ UNCHANGED stdout

\* parse_args: -h or an option getopt does not know prints the usage and exits 3
usage ==
    /\ prog = "poller" /\ pc = "parse_args"
    /\ stdout' = stdout \o << <<"USAGE: ", "check_okl_health_page -H <hostname> [-u <URL>] [-p <port>] ",
                                "[-S] [-e <check_to_exclude>]">>,
                              <<"-H hostname (default: imp.newokl.com)">>,
                              <<"-p port (default: 80)">>,
                              <<"-S check via ssl">>,
                              <<"-u URL (default: /health_checks)">>, <<>>, <<>> >>
    /\ exitCode' = ExitUnknown
    /\ pc' = "usage"
    /\ UNCHANGED <<args, curl, buffer, jsonResponse, items, badList, traceback>>
    /\ UNCHANGED composerVars /\ UNCHANGED prog

\* parse_args: the defaults, -S, and every -e appended to the default exclusion list
parse_args ==
    /\ prog = "poller" /\ pc = "parse_args"
    /\ \E ssl \in BOOLEAN, extra \in SeqsUpTo(ExcludeArgs, MaxExclude) :
          args' = [hostname |-> "localhost", port |-> DefaultPort, ssl |-> ssl,
                   url |-> "/health_checks", excludeList |-> <<"stub">> \o extra]
    /\ pc' = "perform"
    /\ UNCHANGED <<curl, buffer, jsonResponse, items, badList, stdout, exitCode, traceback>>
    /\ UNCHANGED composerVars /\ UNCHANGED prog

\* c.perform() raises pycurl.error
PerformError ==
    /\ prog = "poller" /\ pc = "perform"
    /\ curl' = [performed |-> "error", http_code |-> 0]
    /\ PrintAndExit(<<"UNKOWN: ", "problem pycurling ">> \o Url(args), ExitUnknown)
    /\ UNCHANGED <<args, buffer, jsonResponse, items, badList, traceback>>
    /\ UNCHANGED composerVars /\ UNCHANGED prog

\* c.perform() returns: the server answered with some status and some body
PerformOk ==
    /\ prog = "poller" /\ pc = "perform"
    /\ \E code \in HttpCodes, body \in Bodies :
          /\ curl' = [performed |-> "ok", http_code |-> code]
          /\ buffer' = body
    /\ pc' = "validate"
    /\ UNCHANGED <<args, jsonResponse, items, badList, stdout, exitCode, traceback>>
    /\ UNCHANGED composerVars /\ UNCHANGED prog

\* the status is not 200
ValidateRejects ==
    /\ prog = "poller" /\ pc = "validate"
    /\ ~StatusAccepted(curl.http_code)
    /\ PrintAndExit(<<"UNKNOWN: ">> \o Url(args) \o <<" returned a non 200 status code">>,
                    ExitUnknown)
    /\ UNCHANGED <<args, curl, buffer, jsonResponse, items, badList, traceback>>
    /\ UNCHANGED composerVars /\ UNCHANGED prog

ValidateAccepts ==
    /\ prog = "poller" /\ pc = "validate"
    /\ StatusAccepted(curl.http_code)
    /\ pc' = "loads"
    /\ UNCHANGED <<args, curl, buffer, jsonResponse, items, badList, stdout, exitCode, traceback>>
    /\ UNCHANGED composerVars /\ UNCHANGED prog

\* json.loads raises ValueError
LoadsValueError ==
    /\ prog = "poller" /\ pc = "loads"
    /\ LoadsRaises(buffer)
    /\ PrintAndExit(<<"UNKNOWN: ">> \o Url(args)
                        \o <<" returned a non-json formatted string: ", buffer.kind>>,
                    ExitUnknown)
    /\ UNCHANGED <<args, curl, buffer, jsonResponse, items, badList, traceback>>
    /\ UNCHANGED composerVars /\ UNCHANGED prog

LoadsOk ==
    /\ prog = "poller" /\ pc = "loads"
    /\ ~LoadsRaises(buffer)
    /\ jsonResponse' = Loads(buffer)
    /\ pc' = "aggregate"
    /\ UNCHANGED <<args, curl, buffer, items, badList, stdout, exitCode, traceback>>
    /\ UNCHANGED composerVars /\ UNCHANGED prog

\* jsonResponse.items() on a value that is no dict raises AttributeError
ItemsAttributeError ==
    /\ prog = "poller" /\ pc = "aggregate"
    /\ jsonResponse.type # "dict"
    /\ Uncaught("AttributeError")
    /\ UNCHANGED <<args, curl, buffer, jsonResponse, items, badList>>
    /\ UNCHANGED composerVars /\ UNCHANGED prog

\* the loop over jsonResponse.items(), in whatever order the dict iterates,
\* one of its iterations raising
AggregateRaises ==
    /\ prog = "poller" /\ pc = "aggregate"
    /\ jsonResponse.type = "dict"
    /\ \E order \in Perms(DOMAIN jsonResponse.members) :
          LET its == [i \in 1..Len(order) |-> <<order[i], jsonResponse.members[order[i]]>>]
              r == Walk(its, <<>>)
          IN /\ r.exception # NoException
             /\ items' = its
             /\ badList' = r.bad
             /\ Uncaught(r.exception)
    /\ UNCHANGED <<args, curl, buffer, jsonResponse>>
    /\ UNCHANGED composerVars /\ UNCHANGED prog

\* the loop over jsonResponse.items() running to its end
Aggregate ==
    /\ prog = "poller" /\ pc = "aggregate"
    /\ jsonResponse.type = "dict"
    /\ \E order \in Perms(DOMAIN jsonResponse.members) :
          LET its == [i \in 1..Len(order) |-> <<order[i], jsonResponse.members[order[i]]>>]
              r == Walk(its, <<>>)
          IN /\ r.exception = NoException
             /\ items' = its
             /\ badList' = r.bad
    /\ pc' = "report"
    /\ UNCHANGED <<args, curl, buffer, jsonResponse, stdout, exitCode, traceback>>
    /\ UNCHANGED composerVars /\ UNCHANGED prog

ReportOK ==
    /\ prog = "poller" /\ pc = "report"
    /\ badList = <<>>
    /\ PrintAndExit(<<"OK: ", "All checks pass">>, ExitOK)
    /\ UNCHANGED <<args, curl, buffer, jsonResponse, items, badList, traceback>>
    /\ UNCHANGED composerVars /\ UNCHANGED prog

ReportCritical ==
    /\ prog = "poller" /\ pc = "report"
    /\ badList # <<>>
    /\ PrintAndExit(CriticalMsg(badList), ExitCritical)
    /\ UNCHANGED <<args, curl, buffer, jsonResponse, items, badList, traceback>>
    /\ UNCHANGED composerVars /\ UNCHANGED prog

----------------------------------------------------------------------------
(* sendgraph.py : values *)

NotificationTypes == {None, "PROBLEM", "RECOVERY", "ACKNOWLEDGEMENT", "CUSTOM"}
ServiceStates == {None, "OK", "WARNING", "CRITICAL", "UNKNOWN", "GARBAGE"}
Metrics == {None, "maxSeries(stats.gauges.count.*)"}
WarnThresholds == {None, "1"}
CritThresholds == {None, "5"}
Intervals == {"6hours", "2hours"}
Widths == {"800", "600"}
BaseUrls == {"http://graphite:14770"}

\* what the graph service may answer: the picture, or an error page, or nothing
Responses ==
    {[status |-> 200, content |-> "<png bytes>"],
     [status |-> 404, content |-> "<html>Not Found</html>"],
     [status |-> 500, content |-> ""]}

NoResponse == [status |-> 0, content |-> None]
NoEnv == [graphite_metric |-> None, warn_threshold |-> None, crit_threshold |-> None,
          contact_email |-> <<>>, notification_type |-> None, service_state |-> None,
          host_alias |-> None, host_address |-> None, service_description |-> None,
          date_time |-> None, action_url |-> None, service_output |-> None,
          service_duration |-> None]
NoOptions == [base_url |-> None, interval |-> None, width |-> None, from_email |-> None]
NoEmail == [bgcolor |-> None, body |-> <<>>, subject |-> <<>>]
NoRequests == [urls |-> <<>>, raised |-> FALSE, response |-> NoResponse]
NoMsg == [to |-> <<>>, from |-> None, subject |-> <<>>, parts |-> <<>>]
NoSmtp == [attempted |-> FALSE, delivered |-> FALSE, errors |-> <<>>]
\* graph before get_graph has run (None is a value get_graph returns)
NoGraphYet == "<unset>"

----------------------------------------------------------------------------
(* sendgraph.py : functions *)

\* "{x}".format(x=v): None is written as the text None
Format(v) == IF v = None THEN "None" ELSE v

\* contact_email.split(' '), the text being words with single blanks between
Split(text) == SelectSeq(text, LAMBDA t : t # " ")

\* ', '.join(words)
RECURSIVE Join(_)
Join(words) ==
    IF words = <<>> THEN <<>>
    ELSE IF Len(words) = 1 THEN words
    ELSE <<Head(words), ", ">> \o Join(Tail(words))

\* the color table with the service state looked at before the notification type
get_highlight_color_StateFirst(notification_type, service_state) ==
    IF service_state = "CRITICAL" THEN "lightcoral"
    ELSE IF service_state = "WARNING" THEN "yellow"
    ELSE IF service_state = "OK" THEN "springgreen"
    ELSE IF service_state = "UNKNOWN" THEN "grey"
    ELSE IF notification_type = "ACKNOWLEDGEMENT" THEN "cyan"
    ELSE IF notification_type = "CUSTOM" THEN "greenyellow"
    ELSE "fuchsia"

get_highlight_color(notification_type, service_state) ==
    IF notification_type = "ACKNOWLEDGEMENT" THEN "cyan"
    ELSE IF notification_type = "CUSTOM" THEN "greenyellow"
    ELSE IF service_state = "CRITICAL" THEN "lightcoral"
    ELSE IF service_state = "WARNING" THEN "yellow"
    ELSE IF service_state = "OK" THEN "springgreen"
    ELSE IF service_state = "UNKNOWN" THEN "grey"
    ELSE "fuchsia"

generate_email_body(e, bgcolor) ==
    <<Format(e.date_time), "<BR><BR>", "<TABLE border='0'>",
      "<TR bgcolor='", Format(bgcolor), "'><TD><B>Service State:</B></TD>",
      "<TD><B>", Format(e.service_state), "</B></TD></TR>",
      "<TR><TD>Notification Type:</TD><TD>", Format(e.notification_type), "</TD></TR>",
      "<TR><TD>Service:</TD><TD>", Format(e.service_description), "</TD></TR>",
      "<TR><TD>Host:</TD><TD>", Format(e.host_alias), "</TD></TR>",
      "<TR><TD>Address:</TD><TD>", Format(e.host_address), "</TD></TR>",
      "<TR><TD>Runbook:</TD><TD>",
      "<A HREF='", Format(e.action_url), "'>", Format(e.action_url), "</A></TD></TR>",
      "<TR><TD>Problem Duration:</TD><TD>", Format(e.service_duration), "</TD></TR>",
      "<TR><TD></TD><TD></TD></TR>",
      "<TR><TD>Check Output:</TD><TD>", Format(e.service_output), "</TD></TR>",
      "</TABLE>">>

\* the subject line main builds
Subject(e) ==
    <<Format(e.notification_type), " ", Format(e.service_state), " ",
      Format(e.host_alias), "/", Format(e.service_description)>>

\* get_graph: whether a graph is asked for at all
GraphWanted(e) == e.graphite_metric # None

\* get_graph: the render URL with its threshold overlays
GraphUrl(e, o) ==
    <<Format(o.base_url), "/render?lineMode=connected&from=-", Format(o.interval),
      "&width=", Format(o.width), "&target=", Format(e.graphite_metric),
      "&bgcolor=FFFFFF&fgcolor=000000">>
    \o (IF e.warn_threshold # None
        THEN <<"&target=threshold(", e.warn_threshold, ",'warn = ", e.warn_threshold,
               "','yellow')">>
        ELSE <<>>)
    \o (IF e.crit_threshold # None
        THEN <<"&target=threshold(", e.crit_threshold, ", 'crit = ", e.crit_threshold,
               "','red')">>
        ELSE <<>>)

\* send_graph_email: whether the picture is embedded
HasGraph(g) == g # None

ImgRef == "<BR><BR><img src=\"cid:graph\">"

\* the text part's body with the image reference appended whatever the graph
EmailBody_AlwaysRef(g, body) ==
    Append(IF body = None THEN <<"\n">> ELSE body, ImgRef)

\* send_graph_email: the text part's body
EmailBody(g, body) ==
    LET b == IF body = None THEN <<"\n">> ELSE body
    IN IF HasGraph(g) THEN Append(b, ImgRef) ELSE b

TextPart(body) ==
    [ctype |-> "text/html", payload |-> body, content_id |-> None, disposition |-> None]

ImagePart(g) ==
    [ctype |-> "image/png", payload |-> <<g>>, content_id |-> "<graph>",
     disposition |-> "inline; filename=graph.png"]

\* send_graph_email: the parts attached to the multipart/related message
EmailParts(g, body) ==
    <<TextPart(EmailBody(g, body))>> \o (IF HasGraph(g) THEN <<ImagePart(g)>> ELSE <<>>)

\* send_graph_email: the message handed to smtplib
Assemble(g, subject, sender, receivers, body) ==
    [to |-> Join(receivers), from |-> sender, subject |-> subject,
     parts |-> EmailParts(g, body)]

----------------------------------------------------------------------------
(* sendgraph.py : the script, step by step *)

\* module import: the globals are read from the environment icinga sets (the
\* contact address list and the texts of the body are always set by icinga)
LoadEnv ==
    /\ prog = "composer" /\ pc = "import"
    /\ \E metric \in Metrics, w \in WarnThresholds, c \in CritThresholds,
          nt \in NotificationTypes, st \in ServiceStates :
          env' = [graphite_metric |-> metric, warn_threshold |-> w, crit_threshold |-> c,
                  contact_email |-> <<"oncall@example.com", " ", "dev@example.com">>,
                  notification_type |-> nt, service_state |-> st,
                  host_alias |-> "web1", host_address |-> "10.0.0.1",
                  service_description |-> "s_dn_test",
                  date_time |-> "Tue Aug 5 10:00:00 2014",
                  action_url |-> "https://myrunbook/link",
                  service_output |-> "check output", service_duration |-> "0d 0h 5m 0s"]
    /\ pc' = "main"
    /\ UNCHANGED <<options, email, graph, requests, msg, smtp, traceback>>
    /\ UNCHANGED pollerVars /\ UNCHANGED prog

\* main up to the call of get_graph: options, color, body, subject
main ==
    /\ prog = "composer" /\ pc = "main"
    /\ \E i \in Intervals, w \in Widths, u \in BaseUrls :
          options' = [base_url |-> u, interval |-> i, width |-> w,
                      from_email |-> "icinga@example.com"]
    /\ email' = [bgcolor |-> get_highlight_color(env.notification_type, env.service_state),
                 body |-> generate_email_body(
                              env, get_highlight_color(env.notification_type, env.service_state)),
                 subject |-> Subject(env)]
    /\ pc' = "get_graph"
    /\ UNCHANGED <<env, graph, requests, msg, smtp, traceback>>
    /\ UNCHANGED pollerVars /\ UNCHANGED prog

\* get_graph with no metric configured: None, and no request
GetGraphNone ==
    /\ prog = "composer" /\ pc = "get_graph"
    /\ ~GraphWanted(env)
    /\ graph' = None
    /\ pc' = "send"
    /\ UNCHANGED <<env, options, email, requests, msg, smtp, traceback>>
    /\ UNCHANGED pollerVars /\ UNCHANGED prog

\* get_graph: requests.get raises (connection refused, DNS, ...); nothing
\* catches it, so main ends here with a traceback
GetGraphRaises ==
    /\ prog = "composer" /\ pc = "get_graph"
    /\ GraphWanted(env)
    /\ requests' = [urls |-> Append(requests.urls, GraphUrl(env, options)),
                    raised |-> TRUE, response |-> NoResponse]
    /\ traceback' = "ConnectionError"
    /\ pc' = "exited"
    /\ UNCHANGED <<env, options, email, graph, msg, smtp>>
    /\ UNCHANGED pollerVars /\ UNCHANGED prog

\* get_graph: requests.get returns a response; its content is the graph,
\* whatever its status
GetGraphResponse ==
    /\ prog = "composer" /\ pc = "get_graph"
    /\ GraphWanted(env)
    /\ \E r \in Responses :
          /\ requests' = [urls |-> Append(requests.urls, GraphUrl(env, options)),
                          raised |-> FALSE, response |-> r]
          /\ graph' = r.content
    /\ pc' = "send"
    /\ UNCHANGED <<env, options, email, msg, smtp, traceback>>
    /\ UNCHANGED pollerVars /\ UNCHANGED prog

\* send_graph_email, the transport taking the message
SendMailDelivered ==
    /\ prog = "composer" /\ pc = "send"
    /\ msg' = Assemble(graph, email.subject, options.from_email,
                       Split(env.contact_email), email.body)
    /\ smtp' = [attempted |-> TRUE, delivered |-> TRUE, errors |-> smtp.errors]
    /\ pc' = "exited"
    /\ UNCHANGED <<env, options, email, graph, requests, traceback>>
    /\ UNCHANGED pollerVars /\ UNCHANGED prog

\* send_graph_email, connect or sendmail raising: logged, not raised
SendMailFails ==
    /\ prog = "composer" /\ pc = "send"
    /\ msg' = Assemble(graph, email.subject, options.from_email,
                       Split(env.contact_email), email.body)
    /\ smtp' = [attempted |-> TRUE, delivered |-> FALSE,
                errors |-> Append(smtp.errors, "Sending mail failed")]
    /\ pc' = "exited"
    /\ UNCHANGED <<env, options, email, graph, requests, traceback>>
    /\ UNCHANGED pollerVars /\ UNCHANGED prog

----------------------------------------------------------------------------
(* One run of one of the two programs *)

Init ==
    /\ prog \in {"poller", "composer"}
    /\ pc = IF prog = "poller" THEN "parse_args" ELSE "import"
    /\ args = NoArgs
    /\ curl = NoCurl
    /\ buffer = NotFetched
    /\ jsonResponse = NotParsed
    /\ items = <<>>
    /\ badList = <<>>
    /\ stdout = <<>>
    /\ exitCode = NoExit
    /\ traceback = NoException
    /\ env = NoEnv
    /\ options = NoOptions
    /\ email = NoEmail
    /\ graph = NoGraphYet
    /\ requests = NoRequests
    /\ msg = NoMsg
    /\ smtp = NoSmtp

Next ==
    \/ usage
    \/ parse_args
    \/ PerformError
    \/ PerformOk
    \/ ValidateRejects
    \/ ValidateAccepts
    \/ LoadsValueError
    \/ LoadsOk
    \/ ItemsAttributeError
    \/ AggregateRaises
    \/ Aggregate
    \/ ReportOK
    \/ ReportCritical
    \/ LoadEnv
    \/ main
    \/ GetGraphNone
    \/ GetGraphRaises
    \/ GetGraphResponse
    \/ SendMailDelivered
    \/ SendMailFails

Spec == Init /\ [][Next]_vars

----------------------------------------------------------------------------
(* Properties of the health poller *)

\* a run of the poller that got past argument parsing and has ended
PollerDone == prog = "poller" /\ pc = "exited"

\* the run fetched the page, and the page came with status 200
Fetched200 == curl.performed = "ok" /\ curl.http_code = 200

\* the body is what the poller's input contract describes: a JSON object whose
\* members are objects with a string "message" and a boolean "success"
IsReport(body) ==
    /\ body.kind = "object"
    /\ \A n \in DOMAIN body.members :
          /\ body.members[n].isobj
          /\ body.members[n].message \in Messages
          /\ body.members[n].success \in {"true", "false"}

\* the body is a JSON object that parses into checks with both fields, whatever
\* the type of "success"
IsParsedChecks(body) ==
    /\ body.kind = "object"
    /\ \A n \in DOMAIN body.members :
          /\ body.members[n].isobj
          /\ body.members[n].message \in Messages
          /\ body.members[n].success \in JsonSuccess

Excluded(n) == n \in Range(args.excludeList)

\* the checks of the page that failed, by the page's own JSON
FailingNames(body) == {n \in DOMAIN body.members : body.members[n].success = "false"}

\* the names in badList
BadNames == {badList[i].name : i \in 1..Len(badList)}

\* C1: for a page fetched with status 200 that is a report of checks, the run
\* ends OK (exit 0, nothing in the failing set) exactly when no check that is
\* not excluded is failing, and CRITICAL (exit 2) otherwise; never exit 1.
C1_AggregationPolicy ==
    (PollerDone /\ Fetched200 /\ IsReport(buffer)) =>
        LET consideredFailing == {n \in FailingNames(buffer) : ~Excluded(n)}
        IN /\ exitCode # 1
           /\ (consideredFailing = {}) => (exitCode = 0 /\ badList = <<>>)
           /\ (consideredFailing # {}) => exitCode = 2

\* C2: no check whose name is in the exclusion list is ever put in the failing
\* set, and a report whose failing checks are all excluded ends OK, exit 0.
C2_ExcludedNeverFailing ==
    (PollerDone /\ Fetched200 /\ IsReport(buffer)) =>
        /\ \A n \in BadNames : ~Excluded(n)
        /\ (\A n \in FailingNames(buffer) : Excluded(n)) => exitCode = 0

\* a status-200 body with a format failure: not JSON, JSON that is no object,
\* or an object one of whose checks lacks "success", or fails and lacks "message"
FormatFailure(body) ==
    \/ body.kind \in {"invalid", "array", "string", "number"}
    \/ /\ body.kind = "object"
       /\ \E n \in DOMAIN body.members :
             /\ body.members[n].isobj
             /\ \/ body.members[n].success = Absent
                \/ body.members[n].success = "false" /\ body.members[n].message = Absent

\* C3: a status-200 body with a format failure ends the run UNKNOWN, exit 3,
\* with an UNKNOWN line and no uncaught exception.
C3_FormatFailureIsUnknown ==
    (PollerDone /\ Fetched200 /\ FormatFailure(buffer)) =>
        /\ traceback = NoException
        /\ exitCode = 3
        /\ Len(stdout) = 1 /\ stdout[1][1] = "UNKNOWN: "

\* the CRITICAL line the failing checks of the page call for, the checks taken
\* in the order the parsed response gives them (the order of names)
RECURSIVE ExpectedSummary(_, _)
ExpectedSummary(names, body) ==
    IF names = <<>> THEN <<>>
    ELSE (IF body.members[Head(names)].success = "false"
          THEN <<", ", Head(names), " : {message: ", body.members[Head(names)].message,
                 ", success: ", "False", "}">>
          ELSE <<>>)
         \o ExpectedSummary(Tail(names), body)

C6_NotTrueIsFailing ==
    (PollerDone /\ Fetched200 /\ IsParsedChecks(buffer)) =>
        LET notTrue == {n \in DOMAIN buffer.members : buffer.members[n].success # "true"}
        IN /\ notTrue \subseteq BadNames
           /\ (notTrue # {}) => exitCode = 2

\* C7: a run past argument parsing ends with one line and an exit code of
\* 0, 2 or 3, and the line agrees with the code: 'OK: All checks pass',
\* 'CRITICAL: The following checks are failing, ...', 'UNKNOWN: <reason>'.
C7_LineAgreesWithExit ==
    PollerDone =>
        /\ Len(stdout) = 1
        /\ exitCode \in {0, 2, 3}
        /\ exitCode = 0 => stdout[1] = <<"OK: ", "All checks pass">>
        /\ exitCode = 2 =>
              /\ Len(stdout[1]) > 3
              /\ SubSeq(stdout[1], 1, 3) =
                    <<"CRITICAL: ", "The following checks are failing", ", ">>
        /\ exitCode = 3 => (Len(stdout[1]) > 1 /\ stdout[1][1] = "UNKNOWN: ")

\* C9: a status other than 200 ends the run UNKNOWN, exit 3, with the body
\* never parsed, whatever the body is; json.loads runs only after a 200; and
\* a transport error ends the run with exit 3 with no status or body looked at.
C9_Non200IsUnknown ==
    /\ (PollerDone /\ curl.performed = "ok" /\ curl.http_code # 200) =>
          /\ exitCode = 3
          /\ Len(stdout) = 1 /\ stdout[1][1] = "UNKNOWN: "
          /\ jsonResponse = NotParsed /\ items = <<>> /\ badList = <<>>
    /\ (prog = "poller" /\ jsonResponse # NotParsed) => Fetched200
    /\ (PollerDone /\ curl.performed = "error") =>
          /\ exitCode = 3
          /\ buffer = NotFetched /\ jsonResponse = NotParsed /\ badList = <<>>

\* C9 witness: status 500 with a body that is a report with a failing check.
C9_Witness ==
    /\ PollerDone /\ curl.performed = "ok" /\ curl.http_code = 500
    /\ IsReport(buffer) /\ FailingNames(buffer) # {}
    /\ exitCode = 3

----------------------------------------------------------------------------
(* Properties of the alert composer *)

\* the globals have been read and main has built the body
Composed == prog = "composer" /\ pc \in {"get_graph", "send", "exited"}

ComposerDone == prog = "composer" /\ pc = "exited"

\* the message has an image part with Content-ID <graph>
HasImagePart(m) ==
    \E i \in 1..Len(m.parts) :
        m.parts[i].ctype = "image/png" /\ m.parts[i].content_id = "<graph>"

\* the text part of the message refers to the inline image
HasImageRef(m) ==
    \E i \in 1..Len(m.parts) :
        m.parts[i].ctype = "text/html" /\ ImgRef \in Range(m.parts[i].payload)

\* the graph request failed: it raised, or the answer's status is no success
GraphFetchFailed ==
    \/ requests.raised
    \/ requests.response # NoResponse /\ requests.response.status \notin 200..299

\* C4: when the graph fetch fails, the run still assembles the e-mail and
\* hands it to the mail transport, with no image part and no image reference.
C4_GraphFailureStillSends ==
    (ComposerDone /\ GraphFetchFailed) =>
        /\ smtp.attempted
        /\ msg # NoMsg
        /\ ~HasImagePart(msg)
        /\ ~HasImageRef(msg)

\* the color class the priority table gives a pair
ColorClass(nt, st) ==
    IF nt = "ACKNOWLEDGEMENT" THEN "acknowledged"
    ELSE IF nt = "CUSTOM" THEN "custom"
    ELSE IF st \in {"CRITICAL", "WARNING", "OK", "UNKNOWN"} THEN st
    ELSE "fallback"

ColorClasses == {"acknowledged", "custom", "CRITICAL", "WARNING", "OK", "UNKNOWN", "fallback"}

\* one pair of each class
ClassSample(c) ==
    CASE c = "acknowledged" -> <<"ACKNOWLEDGEMENT", "CRITICAL">>
      [] c = "custom" -> <<"CUSTOM", "WARNING">>
      [] c = "fallback" -> <<"PROBLEM", "GARBAGE">>
      [] OTHER -> <<"PROBLEM", c>>

\* C8: the color main uses is decided by the class of (notification type,
\* service state) alone, acknowledgement before custom before the service
\* state, anything else the fallback; and the seven classes have seven colors.
C8_HighlightColor ==
    Composed =>
        /\ email.bgcolor =
              get_highlight_color(
                  ClassSample(ColorClass(env.notification_type, env.service_state))[1],
                  ClassSample(ColorClass(env.notification_type, env.service_state))[2])
        /\ Cardinality({get_highlight_color(ClassSample(c)[1], ClassSample(c)[2]) :
                            c \in ColorClasses}) = 7
        /\ (env.notification_type = "ACKNOWLEDGEMENT") => email.bgcolor = "cyan"
        /\ (env.notification_type = "CUSTOM") => email.bgcolor = "greenyellow"
        /\ (env.notification_type \notin {"ACKNOWLEDGEMENT", "CUSTOM"}
              /\ env.service_state \notin {"CRITICAL", "WARNING", "OK", "UNKNOWN"})
             => email.bgcolor = "fuchsia"

\* C8 witness: an acknowledgement of a CRITICAL service, colored as acknowledged.
C8_Witness ==
    /\ Composed
    /\ env.notification_type = "ACKNOWLEDGEMENT" /\ env.service_state = "CRITICAL"
    /\ email.bgcolor = "cyan"

====
